---- MODULE Spec2Model ----
(***************************************************************************)
(* A model of jenkinsclean.py: JenkinsClean.clean() with the argument      *)
(* validation, the classification of the workspaces under the root into    *)
(* to_preserve / to_clean, and the removal loop over to_clean.             *)
(*                                                                         *)
(* Workspaces are named 1..n in the order the directory listing returns    *)
(* them; every other attribute (mtime, size, pattern matches, faults) is   *)
(* an arbitrary function of the name, so fixing the listing order loses no *)
(* case.  A regular expression is modelled by the set of workspace names   *)
(* its search() accepts.  An optional (None-able) Python value is modelled *)
(* as a set with at most one element: {} is None, {v} is the value v.      *)
(***************************************************************************)
EXTENDS Integers, Sequences, FiniteSets, TLC

\* ------------------------------------------------------------- bounds
\* At most MaxWs workspaces under the root; count limits up to MaxCount.
MaxWs == 2
MaxCount == 2

\* ---------------------------------------------------------- input sets
\* Byte quantities are chosen below 2^31 so that every sum and difference
\* the code forms stays inside TLC's integers.
GiB == 2^30
Times == 1..MaxWs
SizeChoices == {0, 2^28, 5 * 2^27}
TotalChoices == {2^30}
UsedChoices == {2^28, 2^30}
GbChoices == {-1, 0, 1}
PctChoices == {-1, 0, 50, 100, 101}
CountChoices == (-1)..MaxCount
\* How shutil.rmtree fares on a workspace: every deletion succeeds; one
\* fails on a path without write permission and the retry after chmod
\* succeeds; the same and the retry raises; one fails on a writable path.
RmKinds == {"ok", "ro_retry_ok", "ro_retry_fails", "other_cause"}

\* ------------------------------------------------------ optional values
None == {}
Some(v) == {v}
Val(o) == CHOOSE v \in o : TRUE
Opt(S) == {None} \cup {Some(v) : v \in S}
\* Python truthiness of an optional number: None and 0 are falsy.
Truthy(o) == o # None /\ Val(o) # 0
Min(a, b) == IF a <= b THEN a ELSE b

SeqToSet(s) == {s[i] : i \in 1..Len(s)}
InSeq(x, s) == \E i \in 1..Len(s) : s[i] = x
\* list.remove(x): drops the first occurrence of x.
RECURSIVE Remove(_, _)
Remove(s, x) ==
    IF s = <<>> THEN <<>>
    ELSE IF Head(s) = x THEN Tail(s)
    ELSE <<Head(s)>> \o Remove(Tail(s), x)

VARIABLES
    args,         \* the constructor's arguments (self.max_workspace, ...)
    max_size,     \* self.max_size
    disk,         \* shutil.disk_usage(self.path): [total, used]
    dirs,         \* clean()'s local: the listing of the root it obtained
    mtime,        \* os.path.getmtime of each workspace
    fsize,        \* sum of st_size under each workspace
    statFail,     \* workspaces under which a stat() raises during size()
    rmKind,       \* how deleting each workspace's subtree goes
    exists,       \* the workspace directories present under the root
    to_clean,     \* the reported "Workspaces to remove"
    to_preserve,  \* the reported "Workspaces to preserve"
    quota_number, \* clean()'s local, as the walk left it
    quota_size,   \* clean()'s local, as the walk left it
    warned,       \* workspaces with a "warning: failed to remove" line
    status,       \* "ready" | "done" | "error" | "crashed"
    prev          \* the report of the previous invocation, if any

vars == <<args, max_size, disk, dirs, mtime, fsize, statFail, rmKind, exists,
          to_clean, to_preserve, quota_number, quota_size, warned, status, prev>>

\* ------------------------------------------------------ __validate_args
\* The raise statements of __validate_args.
MissingMode(a) == ~a.dry_run /\ ~a.force

BadMaxGb(a) == Truthy(a.max_gb) /\ Val(a.max_gb) < 0

\* A variant of BadMaxPercentage without the upper limit.
BadMaxPercentageLow(a) ==
    Truthy(a.max_percentage) /\ Val(a.max_percentage) < 0

BadMaxPercentage(a) ==
    Truthy(a.max_percentage)
    /\ (Val(a.max_percentage) < 0 \/ Val(a.max_percentage) > 100)

BadMaxWorkspace(a) == Truthy(a.max_workspace) /\ Val(a.max_workspace) < 0

ValidateFails(a) ==
    MissingMode(a) \/ BadMaxGb(a) \/ BadMaxPercentage(a) \/ BadMaxWorkspace(a)

\* total * pct // 100, split so that no intermediate product leaves 32 bits:
\* floor(total*pct/100) = (total div 100)*pct + ((total mod 100)*pct) div 100.
PctOf(total, pct) == (total \div 100) * pct + ((total % 100) * pct) \div 100

ResolveMaxSize(a, total) ==
    IF Truthy(a.max_gb) /\ Truthy(a.max_percentage)
    THEN Some(Min(Val(a.max_gb) * GiB, PctOf(total, Val(a.max_percentage))))
    ELSE IF Truthy(a.max_gb) THEN Some(Val(a.max_gb) * GiB)
    ELSE IF Truthy(a.max_percentage) THEN Some(PctOf(total, Val(a.max_percentage)))
    ELSE None

\* ---------------------------------------------------------------- clean
\* quota_number = self.max_workspace or None
InitialQuotaNumber(a) == IF Truthy(a.max_workspace) THEN a.max_workspace ELSE None

\* quota_size = self.max_size or None
InitialQuotaSize(ms) == IF Truthy(ms) THEN ms ELSE None

\* A variant of InsertDesc that sorts oldest first (reverse=True forgotten).
RECURSIVE InsertAsc(_, _, _)
InsertAsc(s, x, mt) ==
    IF s = <<>> THEN <<x>>
    ELSE IF mt[Head(s)] <= mt[x] THEN <<Head(s)>> \o InsertAsc(Tail(s), x, mt)
    ELSE <<x>> \o s

\* sorted(dirs, key=getmtime, reverse=True): stable, latest first.
RECURSIVE InsertDesc(_, _, _)
InsertDesc(s, x, mt) ==
    IF s = <<>> THEN <<x>>
    ELSE IF mt[Head(s)] >= mt[x] THEN <<Head(s)>> \o InsertDesc(Tail(s), x, mt)
    ELSE <<x>> \o s

RECURSIVE SortedDesc(_, _)
SortedDesc(s, mt) ==
    IF s = <<>> THEN <<>>
    ELSE InsertDesc(SortedDesc(SubSeq(s, 1, Len(s) - 1), mt), s[Len(s)], mt)

Matches(pat, ws) == pat # None /\ ws \in Val(pat)

\* to_clean += [x for x in dirs if self.clean_pattern.search(x)]
ProvisionalClean(ds, a) ==
    IF a.clean_pattern # None
    THEN SelectSeq(ds, LAMBDA x : Matches(a.clean_pattern, x))
    ELSE <<>>

\* The state clean() carries through its two loops.  crashed: an exception
\* left size(); stopped: the walk hit its break.
StartState(ds, a, ms) ==
    [to_clean |-> ProvisionalClean(ds, a), to_preserve |-> <<>>,
     qn |-> InitialQuotaNumber(a), qs |-> InitialQuotaSize(ms),
     crashed |-> FALSE, stopped |-> FALSE]

\* A variant of PreserveStep in which a clean-pattern match is left alone.
PreserveStepUnlessClean(st, ws, a, sz, sf) ==
    IF st.crashed \/ ~Matches(a.preserve_pattern, ws) \/ InSeq(ws, st.to_clean)
    THEN st
    ELSE LET kept == [st EXCEPT !.to_preserve = Append(@, ws),
                                !.qn = IF @ = None THEN None ELSE Some(Val(@) - 1)]
         IN  IF kept.qs = None THEN kept
             ELSE IF ws \in sf THEN [kept EXCEPT !.crashed = TRUE]
             ELSE [kept EXCEPT !.qs = Some(Val(@) - sz[ws])]

\* One iteration of "for ws in dirs" under "if self.preserve_pattern".
PreserveStep(st, ws, a, sz, sf) ==
    IF st.crashed \/ ~Matches(a.preserve_pattern, ws) THEN st
    ELSE LET kept == [st EXCEPT !.to_preserve = Append(@, ws),
                                !.to_clean = Remove(@, ws),
                                !.qn = IF @ = None THEN None ELSE Some(Val(@) - 1)]
         IN  IF kept.qs = None THEN kept
             ELSE IF ws \in sf THEN [kept EXCEPT !.crashed = TRUE]
             ELSE [kept EXCEPT !.qs = Some(Val(@) - sz[ws])]

RECURSIVE PreservePass(_, _, _, _, _)
PreservePass(st, ds, a, sz, sf) ==
    IF ds = <<>> THEN st
    ELSE PreservePass(PreserveStep(st, Head(ds), a, sz, sf), Tail(ds), a, sz, sf)

\* A variant of WalkStep that appends the workspace before it tests the
\* size quota, so that the workspace that exhausts the quota is kept.
WalkStepAppendFirst(st, ws, sz, sf) ==
    IF st.crashed \/ st.stopped THEN st
    ELSE IF InSeq(ws, st.to_clean) \/ InSeq(ws, st.to_preserve) THEN st
    ELSE LET n1 == IF st.qn = None THEN st
                   ELSE [st EXCEPT !.qn = Some(Val(@) - 1)]
         IN  IF n1.qn # None /\ Val(n1.qn) < 0 THEN [n1 EXCEPT !.stopped = TRUE]
             ELSE IF n1.qs = None THEN [n1 EXCEPT !.to_preserve = Append(@, ws)]
             ELSE IF ws \in sf THEN [n1 EXCEPT !.crashed = TRUE]
             ELSE LET n2 == [n1 EXCEPT !.qs = Some(Val(@) - sz[ws]),
                                       !.to_preserve = Append(@, ws)]
                  IN  IF Val(n2.qs) < 0 THEN [n2 EXCEPT !.stopped = TRUE]
                      ELSE n2

\* One iteration of "for ws in dirs_sorted".
WalkStep(st, ws, sz, sf) ==
    IF st.crashed \/ st.stopped THEN st
    ELSE IF InSeq(ws, st.to_clean) \/ InSeq(ws, st.to_preserve) THEN st
    ELSE LET n1 == IF st.qn = None THEN st
                   ELSE [st EXCEPT !.qn = Some(Val(@) - 1)]
         IN  IF n1.qn # None /\ Val(n1.qn) < 0 THEN [n1 EXCEPT !.stopped = TRUE]
             ELSE IF n1.qs = None THEN [n1 EXCEPT !.to_preserve = Append(@, ws)]
             ELSE IF ws \in sf THEN [n1 EXCEPT !.crashed = TRUE]
             ELSE LET n2 == [n1 EXCEPT !.qs = Some(Val(@) - sz[ws])]
                  IN  IF Val(n2.qs) < 0 THEN [n2 EXCEPT !.stopped = TRUE]
                      ELSE [n2 EXCEPT !.to_preserve = Append(@, ws)]

RECURSIVE WalkPass(_, _, _, _)
WalkPass(st, ds, sz, sf) ==
    IF ds = <<>> THEN st
    ELSE WalkPass(WalkStep(st, Head(ds), sz, sf), Tail(ds), sz, sf)

\* A variant of FinalToClean that keeps the provisional list of the
\* clean-pattern matches instead of recomputing it.
FinalToCleanProvisional(st, sorted) == st.to_clean

\* to_clean = [x for x in dirs_sorted if x not in to_preserve]
FinalToClean(st, sorted) ==
    SelectSeq(sorted, LAMBDA x : ~InSeq(x, st.to_preserve))

Classify(ds, mt, sz, sf, a, ms) ==
    LET sorted == SortedDesc(ds, mt)
        s1 == IF a.preserve_pattern # None
              THEN PreservePass(StartState(ds, a, ms), ds, a, sz, sf)
              ELSE StartState(ds, a, ms)
        s2 == WalkPass(s1, sorted, sz, sf)
    IN  [s2 EXCEPT !.to_clean = IF s2.crashed THEN <<>> ELSE FinalToClean(s2, sorted),
                   !.to_preserve = IF s2.crashed THEN <<>> ELSE @]

\* --------------------------------------------------------------- rmtree
\* A variant of RmtreeSkips with "and" for "or".
RmtreeSkipsBoth(a) == a.dry_run /\ ~a.force

\* if self.dry_run or not self.force: return
RmtreeSkips(a) == a.dry_run \/ ~a.force

\* shutil.rmtree(path, onexc=self.__onexc) on one workspace, by how the
\* deletion of its files goes.  raised: __onexc let an exception out.
RmtreeOne(r, ws, kind) ==
    IF r.raised THEN r
    ELSE CASE kind[ws] = "ok" -> [r EXCEPT !.exists = @ \ {ws}]
           [] kind[ws] = "ro_retry_ok" -> [r EXCEPT !.exists = @ \ {ws}]
           [] kind[ws] = "ro_retry_fails" -> [r EXCEPT !.raised = TRUE]
           [] kind[ws] = "other_cause" -> [r EXCEPT !.warned = @ \cup {ws}]

\* for ws in to_clean: self.rmtree(root / ws)
RECURSIVE RemoveAll(_, _, _, _)
RemoveAll(r, tc, a, kind) ==
    IF tc = <<>> \/ RmtreeSkips(a) THEN r
    ELSE RemoveAll(RmtreeOne(r, Head(tc), kind), Tail(tc), a, kind)

\* root, dirs, _ = next(self.path.walk()): the existing workspaces, in
\* listing order.
Listing(ex) == SelectSeq([i \in 1..MaxWs |-> i], LAMBDA x : x \in ex)

\* ----------------------------------------------------------------- Init
\* The patterns a run may be given over n workspaces.  A pattern that
\* matches no workspace leaves the same state as no pattern, and is left out.
PatChoices(n, on) ==
    IF on THEN {None} \cup {Some(S) : S \in (SUBSET (1..n)) \ {{}}} ELSE {None}

\* JenkinsClean.__init__ over an arbitrary root: counts, limits (pairs of
\* max_gb, max_percentage), modes (pairs of dry_run, force) and sizes are
\* the sets the inputs are drawn from.
\* The modification times are only ever compared with one another, so they
\* are drawn as ranks 1..k: every order with ties is there once.
InitWith(counts, limits, pats, sizes, useds, modes, statFaults, rmKinds) ==
    /\ \E n \in 0..MaxWs :
          /\ exists = 1..n
          /\ mtime \in [1..n -> Times]
          /\ \E k \in 0..n : {mtime[i] : i \in 1..n} = 1..k
          /\ fsize \in [1..n -> sizes]
          /\ \E c \in counts, l \in limits, m \in modes,
                pp \in PatChoices(n, pats), cp \in PatChoices(n, pats) :
                args = [max_workspace |-> c, max_gb |-> l[1],
                        max_percentage |-> l[2], preserve_pattern |-> pp,
                        clean_pattern |-> cp, dry_run |-> m[1], force |-> m[2]]
          /\ statFail \in (IF statFaults THEN SUBSET (1..n) ELSE {{}})
          /\ rmKind \in [1..n -> rmKinds]
    /\ disk \in [total : TotalChoices, used : useds]
    /\ max_size = None
    /\ dirs = <<>>
    /\ to_clean = <<>>
    /\ to_preserve = <<>>
    /\ quota_number = None
    /\ quota_size = None
    /\ warned = {}
    /\ status = "ready"
    /\ prev = None

\* -------------------------------------------------------------- actions
\* JenkinsClean.clean(), from __validate_args to the last rmtree.
clean ==
    /\ status = "ready"
    /\ IF ValidateFails(args)
       THEN /\ status' = "error"
            /\ UNCHANGED <<max_size, dirs, exists, to_clean, to_preserve,
                           quota_number, quota_size, warned>>
       ELSE \E c \in {Classify(Listing(exists), mtime, fsize, statFail, args,
                                ResolveMaxSize(args, disk.total))} :
            \E r \in {RemoveAll([exists |-> exists, warned |-> {}, raised |-> FALSE],
                                 c.to_clean, args, rmKind)} :
                /\ max_size' = ResolveMaxSize(args, disk.total)
                /\ dirs' = Listing(exists)
                /\ to_clean' = c.to_clean
                /\ to_preserve' = c.to_preserve
                /\ quota_number' = c.qn
                /\ quota_size' = c.qs
                /\ exists' = IF c.crashed THEN exists ELSE r.exists
                /\ warned' = IF c.crashed THEN {} ELSE r.warned
                /\ status' = IF c.crashed \/ r.raised THEN "crashed" ELSE "done"
    /\ UNCHANGED <<args, disk, mtime, fsize, statFail, rmKind, prev>>

\* main() run again on the same root with the same limits and patterns and
\* the given -n / -f: a fresh JenkinsClean.  prev keeps what the finished
\* run reported.
main(dry, force) ==
    /\ status # "ready"
    /\ args' = [args EXCEPT !.dry_run = dry, !.force = force]
    /\ prev' = IF status = "done"
               THEN Some([dry_run |-> args.dry_run, force |-> args.force,
                          to_clean |-> to_clean, to_preserve |-> to_preserve])
               ELSE None
    /\ max_size' = None
    /\ dirs' = <<>>
    /\ to_clean' = <<>>
    /\ to_preserve' = <<>>
    /\ quota_number' = None
    /\ quota_size' = None
    /\ warned' = {}
    /\ status' = "ready"
    /\ UNCHANGED <<disk, exists, mtime, fsize, statFail, rmKind>>

\* ------------------------------------------------------- specifications
NoLimit == <<None, None>>
Live == <<FALSE, TRUE>>
AllModes == BOOLEAN \X BOOLEAN

\* One live run of a valid policy: every count limit, size limits through
\* max_gb or max_percentage, every pair of patterns.
Init ==
    InitWith(Opt(0..MaxCount),
             {NoLimit, <<Some(1), None>>, <<None, Some(50)>>},
             TRUE, SizeChoices, {2^28}, {Live}, FALSE, {"ok"})
Next == clean
Spec == Init /\ [][Next]_vars

\* One run of every policy, valid or not, in every mode.
InitPolicy ==
    InitWith(Opt(CountChoices), Opt(GbChoices) \X Opt(PctChoices),
             FALSE, {5 * 2^27}, UsedChoices, AllModes, FALSE, {"ok"})
NextPolicy == clean
SpecPolicy == InitPolicy /\ [][NextPolicy]_vars

\* One run under a count limit alone, with deletions that may fail.
InitCount ==
    InitWith(Opt(0..MaxCount), {NoLimit}, FALSE, {2^28}, {2^28},
             AllModes, FALSE, RmKinds)
NextCount == clean
SpecCount == InitCount /\ [][NextCount]_vars

\* Runs repeated on the same root with other modes.
InitRerun ==
    InitWith({None, Some(1)}, {NoLimit, <<None, Some(50)>>},
             TRUE, {2^28, 5 * 2^27}, {2^28}, AllModes, FALSE, {"ok"})
NextRerun ==
    \/ clean
    \/ \E dry \in BOOLEAN, force \in BOOLEAN : main(dry, force)
SpecRerun == InitRerun /\ [][NextRerun]_vars

\* One live run with stat() and deletion failures.
InitFaults ==
    InitWith({None, Some(1)}, {NoLimit, <<None, Some(50)>>},
             FALSE, {2^28, 5 * 2^27}, {2^28}, {Live}, TRUE, RmKinds)
NextFaults == clean
SpecFaults == InitFaults /\ [][NextFaults]_vars

\* --------------------------------------------------------------- claims
PreserveSet == SeqToSet(to_preserve)
CleanSet == SeqToSet(to_clean)
\* The immediate subdirectories of the root when the first run began.
Workspaces == DOMAIN mtime
IsLive == ~args.dry_run /\ args.force
PatternKept(ws) == Matches(args.preserve_pattern, ws)
SizeQuotaActive == InitialQuotaSize(max_size) # None

RECURSIVE SumSizes(_)
SumSizes(s) == IF s = <<>> THEN 0 ELSE fsize[Head(s)] + SumSizes(Tail(s))

LargestSize ==
    IF Workspaces = {} THEN 0
    ELSE CHOOSE m \in {fsize[w] : w \in Workspaces} :
            \A w \in Workspaces : fsize[w] <= m

\* C1: when clean() has classified, to_preserve and to_clean are disjoint,
\* together they are exactly the immediate subdirectories of the root, and
\* neither list holds a workspace twice.
C1_Partition ==
    status = "done" =>
        /\ PreserveSet \cap CleanSet = {}
        /\ PreserveSet \cup CleanSet = Workspaces
        /\ Len(to_preserve) = Cardinality(PreserveSet)
        /\ Len(to_clean) = Cardinality(CleanSet)

\* C1 witness: a run under a count limit, a size limit and both patterns
\* that fills both lists.
C1_Witness ==
    /\ status = "done"
    /\ to_clean # <<>> /\ to_preserve # <<>>
    /\ args.preserve_pattern # None /\ args.clean_pattern # None
    /\ quota_number # None /\ quota_size # None

\* C2: a workspace whose name matches the preserve pattern is in
\* to_preserve, is not in the final to_clean and is not removed, whatever
\* the quotas are and also when it matches the clean pattern.
C2_PreserveWins ==
    status = "done" =>
        \A ws \in Workspaces :
            PatternKept(ws) =>
                /\ ws \in PreserveSet
                /\ ws \notin CleanSet
                /\ ws \in exists

\* C2 witness: a workspace matching both patterns kept in a live run whose
\* count and size quotas were both driven negative.
C2_Witness ==
    /\ status = "done" /\ IsLive
    /\ quota_number # None /\ Val(quota_number) < 0
    /\ quota_size # None /\ Val(quota_size) < 0
    /\ \E ws \in Workspaces :
          /\ PatternKept(ws) /\ Matches(args.clean_pattern, ws)
          /\ ws \in PreserveSet /\ ws \in exists

\* C3 (as claimed): with max_size set, the disk's used bytes at most
\* max_size, no count limit and no patterns, to_clean is empty.
C3_NoEvictionBelowMax ==
    ( /\ status = "done"
      /\ max_size # None /\ disk.used <= Val(max_size)
      /\ args.max_workspace = None
      /\ args.preserve_pattern = None /\ args.clean_pattern = None )
    => to_clean = <<>>

\* C4: under a nonzero count limit N alone, with distinct modification
\* times, to_preserve is the min(N, n) latest workspaces and to_clean the
\* older rest; a live run leaves the to_preserve directories in place and,
\* where the deletions go through, exactly the to_clean ones are gone.
C4_CountKeepsNewest ==
    ( /\ status \in {"done", "crashed"}
      /\ Truthy(args.max_workspace)
      /\ max_size = None
      /\ args.preserve_pattern = None /\ args.clean_pattern = None
      /\ \A v, w \in Workspaces : v # w => mtime[v] # mtime[w] )
    => /\ Cardinality(PreserveSet) = Min(Val(args.max_workspace), Cardinality(Workspaces))
       /\ PreserveSet \cup CleanSet = Workspaces
       /\ PreserveSet \cap CleanSet = {}
       /\ \A p \in PreserveSet, c \in CleanSet : mtime[p] > mtime[c]
       /\ PreserveSet \subseteq exists
       /\ ( IsLive /\ (\A c \in CleanSet : rmKind[c] \in {"ok", "ro_retry_ok"})
            => exists = PreserveSet )

\* C4 witness: a live run with a count limit below the number of
\* workspaces whose deletions went through.
C4_Witness ==
    /\ status = "done" /\ IsLive
    /\ Truthy(args.max_workspace)
    /\ Val(args.max_workspace) < Cardinality(Workspaces)
    /\ \A v, w \in Workspaces : v # w => mtime[v] # mtime[w]
    /\ to_clean # <<>> /\ to_preserve # <<>>
    /\ exists = PreserveSet

\* C5: a dry run removes nothing, and the live run that follows it on the
\* same root with the same limits and patterns reports the lists the dry
\* run reported.
C5_DryRunSameReport ==
    /\ (status = "done" /\ args.dry_run => exists = SeqToSet(dirs))
    /\ ( ( /\ status = "done" /\ IsLive
           /\ prev # None /\ Val(prev).dry_run )
         => /\ to_clean = Val(prev).to_clean
            /\ to_preserve = Val(prev).to_preserve )

\* C5 witness: a live run that removed a workspace, after a dry run with
\* force set.
C5_Witness ==
    /\ status = "done" /\ IsLive
    /\ prev # None /\ Val(prev).dry_run /\ Val(prev).force
    /\ to_clean # <<>> /\ to_preserve # <<>>
    /\ exists # SeqToSet(dirs)

\* The policies the claim calls invalid.
InvalidPolicy(a) ==
    \/ ~a.dry_run /\ ~a.force
    \/ a.max_workspace # None /\ Val(a.max_workspace) < 0
    \/ a.max_gb # None /\ Val(a.max_gb) < 0
    \/ a.max_percentage # None /\ Val(a.max_percentage) < 0
    \/ a.max_percentage # None /\ Val(a.max_percentage) > 100

\* C6: clean() ends in a policy error exactly when the policy is invalid,
\* and then nothing has been listed, classified or removed.
C6_PolicyError ==
    status # "ready" =>
        /\ (status = "error") <=> InvalidPolicy(args)
        /\ status = "error" =>
              /\ dirs = <<>> /\ to_clean = <<>> /\ to_preserve = <<>>
              /\ max_size = None
              /\ exists = Workspaces

\* C6 witness: a forced run refused for a percentage above 100 alone.
C6_Witness ==
    /\ status = "error"
    /\ args.force /\ ~args.dry_run
    /\ args.max_percentage = Some(101)
    /\ args.max_workspace = Some(0) /\ args.max_gb = Some(0)
    /\ exists # {}

\* C7 (as claimed): a live run in which no size computation fails ends
\* normally, whatever deletion fails, with every to_clean workspace whose
\* deletion can go through gone.
C7_RemovalNeverAborts ==
    (status # "ready" /\ statFail = {}) =>
        /\ status = "done"
        /\ \A ws \in CleanSet :
              rmKind[ws] \in {"ok", "ro_retry_ok"} => ws \notin exists

C9_SizeFailureTolerated ==
    (status # "ready" /\ \A ws \in Workspaces : rmKind[ws] # "ro_retry_fails") =>
        /\ status = "done"
        /\ PreserveSet \cup CleanSet = Workspaces

\* C10 (as claimed): under a count limit of zero, to_preserve holds only
\* preserve-pattern matches.
C10_ZeroCountBinds ==
    (status = "done" /\ args.max_workspace = Some(0) /\ max_size = None) =>
        \A ws \in PreserveSet : PatternKept(ws)

====
